---- MODULE Spec2Model ----
(***************************************************************************)
(* Model of sycu/tic-tac-toe (src/tictactoe.py): the board, get_winner,    *)
(* the two search providers (MinimaxInput, AlphaBetaInput) and the game    *)
(* loop TicTacToe.play.                                                    *)
(*                                                                         *)
(* A board is a function board[y][x], y the row and x the column, both in  *)
(* 0..2, exactly as the nested Python list is indexed.  Python's None is   *)
(* the integer None below; a cell holds None, 1 or 2.  The recursive       *)
(* scorers mutate the one shared board in place, so every operator that    *)
(* models them takes the board and returns the board it leaves behind      *)
(* together with its Python return value.  None is an integer because the  *)
(* code compares cells with ==; it differs from every mark, winner and     *)
(* score.                                                                  *)
(***************************************************************************)
EXTENDS Integers, Sequences, FiniteSets, TLC

INFINITY == 1000000

None == -2

Coord == 0..2

Cell == {None, 1, 2}

Boards == [Coord -> [Coord -> Cell]]

EmptyBoard == [y \in Coord |-> [x \in Coord |-> None]]

\* Python truthiness of a cell: None and 0 are false.
Truthy(v) == v # None /\ v # 0

\* board[y][x] = v, the in-place list assignment.
Put(b, x, y, v) == [b EXCEPT ![y][x] = v]

----------------------------------------------------------------------------
(* TicTacToe.get_winner                                                    *)

\* get_winner with has_empty_field left True: a full board without a line is
\* undecided, not a draw.
has_empty_field_always(b) == TRUE

\* `if not board[y][x]: has_empty_field = True` over all nine cells.
has_empty_field(b) == \E y \in Coord : \E x \in Coord : ~Truthy(b[y][x])

\* get_winner with the anti-diagonal ending at board[2][2] instead of board[2][0].
get_winner_wrong_diagonal(b) ==
    IF b[0][0] > 0 /\ b[0][0] = b[0][1] /\ b[0][1] = b[0][2] THEN b[0][0]
    ELSE IF b[1][0] > 0 /\ b[1][0] = b[1][1] /\ b[1][1] = b[1][2] THEN b[1][0]
    ELSE IF b[2][0] > 0 /\ b[2][0] = b[2][1] /\ b[2][1] = b[2][2] THEN b[2][0]
    ELSE IF b[0][0] > 0 /\ b[0][0] = b[1][0] /\ b[1][0] = b[2][0] THEN b[0][0]
    ELSE IF b[0][1] > 0 /\ b[0][1] = b[1][1] /\ b[1][1] = b[2][1] THEN b[0][1]
    ELSE IF b[0][2] > 0 /\ b[0][2] = b[1][2] /\ b[1][2] = b[2][2] THEN b[0][2]
    ELSE IF b[0][0] > 0 /\ b[0][0] = b[1][1] /\ b[1][1] = b[2][2] THEN b[0][0]
    ELSE IF b[0][2] > 0 /\ b[0][2] = b[1][1] /\ b[1][1] = b[2][2] THEN b[0][2]
    ELSE IF ~has_empty_field(b) THEN 0
    ELSE None

\* The loops over range(3) are written out, in the order the code tests the
\* lines.  `board[y][0] and ...` is Python truthiness: of the values a cell
\* holds, the marks 1 and 2 are true and None is false, which is `> 0` here.
get_winner(b) ==
    IF b[0][0] > 0 /\ b[0][0] = b[0][1] /\ b[0][1] = b[0][2] THEN b[0][0]
    ELSE IF b[1][0] > 0 /\ b[1][0] = b[1][1] /\ b[1][1] = b[1][2] THEN b[1][0]
    ELSE IF b[2][0] > 0 /\ b[2][0] = b[2][1] /\ b[2][1] = b[2][2] THEN b[2][0]
    ELSE IF b[0][0] > 0 /\ b[0][0] = b[1][0] /\ b[1][0] = b[2][0] THEN b[0][0]
    ELSE IF b[0][1] > 0 /\ b[0][1] = b[1][1] /\ b[1][1] = b[2][1] THEN b[0][1]
    ELSE IF b[0][2] > 0 /\ b[0][2] = b[1][2] /\ b[1][2] = b[2][2] THEN b[0][2]
    ELSE IF b[0][0] > 0 /\ b[0][0] = b[1][1] /\ b[1][1] = b[2][2] THEN b[0][0]
    ELSE IF b[0][2] > 0 /\ b[0][2] = b[1][1] /\ b[1][1] = b[2][0] THEN b[0][2]
    ELSE IF ~has_empty_field(b) THEN 0
    ELSE None

----------------------------------------------------------------------------
(* The scorers.  Each returns [score, board]: the Python return value and  *)
(* the board as the call leaves it.                                        *)

\* terminal_score with the test inverted: 1 if winner != player else -1.
terminal_score_inverted(winner, player) ==
    IF winner = 0 THEN 0 ELSE IF winner # player THEN 1 ELSE -1

\* 1 if winner == player else -1, and 0 for a draw (lines 52-55, 99-102).
terminal_score(winner, player) ==
    IF winner = 0 THEN 0 ELSE IF winner = player THEN 1 ELSE -1

\* get_best_score = max if maximizing else min
get_best_score(maximizing, score, best_score) ==
    IF maximizing
    THEN (IF score > best_score THEN score ELSE best_score)
    ELSE (IF score < best_score THEN score ELSE best_score)

\* The mark a frame places: player if maximizing else player % 2 + 1.
mover(player, maximizing) == IF maximizing THEN player ELSE (player % 2) + 1

RECURSIVE minimax(_, _, _), minimax_scan(_, _, _, _, _)

minimax(b, player, maximizing) ==
    LET winner == get_winner(b) IN
    IF winner # None
    THEN [score |-> terminal_score(winner, player), board |-> b]
    ELSE minimax_scan(b, player, maximizing, 0,
                      IF maximizing THEN -INFINITY ELSE INFINITY)

RECURSIVE minimax_scan_return_in_loop(_, _, _, _, _)

\* __minimax with `return best_score` indented into the loop body: it returns
\* after the first empty cell.
minimax_scan_return_in_loop(b, player, maximizing, k, best_score) ==
    IF k = 9
    THEN [score |-> best_score, board |-> b]
    ELSE LET y == k \div 3
             x == k % 3
         IN  IF b[y][x] = None
             THEN LET r == minimax(Put(b, x, y, mover(player, maximizing)),
                                   player, ~maximizing)
                  IN  [score |-> get_best_score(maximizing, r.score, best_score),
                       board |-> Put(r.board, x, y, None)]
             ELSE minimax_scan_return_in_loop(b, player, maximizing, k + 1,
                                              best_score)

\* The double loop of __minimax from cell k = 3*y + x on.
minimax_scan(b, player, maximizing, k, best_score) ==
    IF k = 9
    THEN [score |-> best_score, board |-> b]
    ELSE LET y == k \div 3
             x == k % 3
         IN  IF b[y][x] = None
             THEN LET r == minimax(Put(b, x, y, mover(player, maximizing)),
                                   player, ~maximizing)
                  IN  minimax_scan(Put(r.board, x, y, None), player, maximizing,
                                   k + 1,
                                   get_best_score(maximizing, r.score, best_score))
             ELSE minimax_scan(b, player, maximizing, k + 1, best_score)

RECURSIVE alpha_beta(_, _, _, _, _), alpha_beta_scan(_, _, _, _, _, _, _)

alpha_beta(b, player, maximizing, alpha, beta) ==
    LET winner == get_winner(b) IN
    IF winner # None
    THEN [score |-> terminal_score(winner, player), board |-> b]
    ELSE alpha_beta_scan(b, player, maximizing, alpha, beta, 0,
                         IF maximizing THEN -INFINITY ELSE INFINITY)

RECURSIVE alpha_beta_scan_unguarded(_, _, _, _, _, _, _)

\* __alpha_beta with the window updated without looking at `maximizing`:
\* if score > alpha: alpha = score / elif score < beta: beta = score.
alpha_beta_scan_unguarded(b, player, maximizing, alpha, beta, k, best_score) ==
    IF k = 9
    THEN [score |-> best_score, board |-> b]
    ELSE LET y == k \div 3
             x == k % 3
         IN  IF b[y][x] = None
             THEN LET r == alpha_beta(Put(b, x, y, mover(player, maximizing)),
                                      player, ~maximizing, alpha, beta)
                      undone == Put(r.board, x, y, None)
                      best == get_best_score(maximizing, r.score, best_score)
                      alpha2 == IF r.score > alpha THEN r.score ELSE alpha
                      beta2 == IF ~(r.score > alpha) /\ r.score < beta
                               THEN r.score ELSE beta
                  IN  IF alpha2 > beta2
                      THEN [score |-> best, board |-> undone]
                      ELSE alpha_beta_scan_unguarded(undone, player, maximizing,
                                                     alpha2, beta2, k + 1, best)
             ELSE alpha_beta_scan_unguarded(b, player, maximizing, alpha, beta,
                                            k + 1, best_score)

\* The double loop of __alpha_beta from cell k = 3*y + x on.
alpha_beta_scan(b, player, maximizing, alpha, beta, k, best_score) ==
    IF k = 9
    THEN [score |-> best_score, board |-> b]
    ELSE LET y == k \div 3
             x == k % 3
         IN  IF b[y][x] = None
             THEN LET r == alpha_beta(Put(b, x, y, mover(player, maximizing)),
                                      player, ~maximizing, alpha, beta)
                      undone == Put(r.board, x, y, None)
                      best == get_best_score(maximizing, r.score, best_score)
                      alpha2 == IF maximizing /\ r.score > alpha
                                THEN r.score ELSE alpha
                      beta2 == IF ~maximizing /\ r.score < beta
                               THEN r.score ELSE beta
                  IN  IF alpha2 > beta2
                      THEN [score |-> best, board |-> undone]
                      ELSE alpha_beta_scan(undone, player, maximizing,
                                           alpha2, beta2, k + 1, best)
             ELSE alpha_beta_scan(b, player, maximizing, alpha, beta,
                                  k + 1, best_score)

----------------------------------------------------------------------------
(* MinimaxInput.move and AlphaBetaInput.move.  Each returns the Python     *)
(* return value best_move = <<x, y>>, the board as the call leaves it, and *)
(* two locals of the loop as they stand at the return: best_score, and     *)
(* scores, the value the local `score` took for each candidate <<x, y>>.   *)

\* The candidate loop of MinimaxInput.move without `board[y][x] = None`.
minimax_first_move_no_undo(b, player, x, y) ==
    LET r == minimax(Put(b, x, y, player), player, FALSE)
    IN  [score |-> r.score, board |-> r.board]

\* Lines 87-89: board[y][x] = player; score = __minimax(...); board[y][x] = None
minimax_first_move(b, player, x, y) ==
    LET r == minimax(Put(b, x, y, player), player, FALSE)
    IN  [score |-> r.score, board |-> Put(r.board, x, y, None)]

\* Lines 40-42, the same three statements with __alpha_beta.
alpha_beta_first_move(b, player, x, y) ==
    LET r == alpha_beta(Put(b, x, y, player), player, FALSE, -INFINITY, INFINITY)
    IN  [score |-> r.score, board |-> Put(r.board, x, y, None)]

\* The test of move written `score >= best_score`: the last best cell wins ties.
better_or_equal(score, best_score) == score >= best_score

\* if score > best_score: best_score = score; best_move = (x, y)
better(score, best_score) == score > best_score

RECURSIVE minimax_move_scan(_, _, _, _, _, _)

minimax_move_scan(b, player, k, best_score, best_move, scores) ==
    IF k = 9
    THEN [best_move |-> best_move, best_score |-> best_score,
          scores |-> scores, board |-> b]
    ELSE LET y == k \div 3
             x == k % 3
         IN  IF b[y][x] = None
             THEN LET r == minimax_first_move(b, player, x, y)
                      take == better(r.score, best_score)
                  IN  minimax_move_scan(r.board, player, k + 1,
                          IF take THEN r.score ELSE best_score,
                          IF take THEN <<x, y>> ELSE best_move,
                          scores @@ (<<x, y>> :> r.score))
             ELSE minimax_move_scan(b, player, k + 1, best_score, best_move, scores)

MinimaxInput_move(b, player) ==
    minimax_move_scan(b, player, 0, -INFINITY, <<0, 0>>, <<>>)

RECURSIVE alpha_beta_move_scan(_, _, _, _, _, _)

alpha_beta_move_scan(b, player, k, best_score, best_move, scores) ==
    IF k = 9
    THEN [best_move |-> best_move, best_score |-> best_score,
          scores |-> scores, board |-> b]
    ELSE LET y == k \div 3
             x == k % 3
         IN  IF b[y][x] = None
             THEN LET r == alpha_beta_first_move(b, player, x, y)
                      take == better(r.score, best_score)
                  IN  alpha_beta_move_scan(r.board, player, k + 1,
                          IF take THEN r.score ELSE best_score,
                          IF take THEN <<x, y>> ELSE best_move,
                          scores @@ (<<x, y>> :> r.score))
             ELSE alpha_beta_move_scan(b, player, k + 1, best_score, best_move, scores)

\* AlphaBetaInput.move with best_score = INFINITY: no score is ever greater.
AlphaBetaInput_move_wrong_sentinel(b, player) ==
    alpha_beta_move_scan(b, player, 0, INFINITY, <<0, 0>>, <<>>)

AlphaBetaInput_move(b, player) ==
    alpha_beta_move_scan(b, player, 0, -INFINITY, <<0, 0>>, <<>>)

----------------------------------------------------------------------------
(* TicTacToe.play as a state machine.                                      *)
(*   pc = "loop"      at the while test of line 138                        *)
(*   pc = "move"      redrawn, inside player_input.move (line 142)         *)
(*   pc = "returned"  move has returned x, y; line 143 is next             *)
(*   pc = "done"      play has returned `result`                           *)
(*   pc = "error"     play has raised Exception('Invalid move')            *)
(* window is the board last handed to __redraw (its pixels aside).         *)

VARIABLES board, current_player, pc, move_ret, result, window,
          player_1_input, player_2_input, search

vars == <<board, current_player, pc, move_ret, result, window,
          player_1_input, player_2_input, search>>

\* The values of locals before their first assignment.
Unset == <<>>

\* player_input = self.player_1_input if current_player == 1 else self.player_2_input
player_input == IF current_player = 1 THEN player_1_input ELSE player_2_input

\* play up to the while test, with the two providers the constructor stored.
InitPlay(inputs_1, inputs_2) ==
    /\ board = EmptyBoard
    /\ current_player = 1
    /\ pc = "loop"
    /\ move_ret = Unset
    /\ result = None
    /\ window = Unset
    /\ player_1_input \in inputs_1
    /\ player_2_input \in inputs_2
    /\ search = Unset

\* The while test written `while not TicTacToe.get_winner(board)`: the draw,
\* 0, is false like None, and the loop goes on.
Loop_truth_test ==
    /\ pc = "loop"
    /\ window' = board
    /\ IF ~Truthy(get_winner(board))
       THEN pc' = "move" /\ result' = result
       ELSE pc' = "done" /\ result' = get_winner(board)
    /\ UNCHANGED <<board, current_player, move_ret,
                   player_1_input, player_2_input, search>>

\* play without the redraw of line 150: the window is drawn inside the loop
\* only.
Loop_no_final_redraw ==
    /\ pc = "loop"
    /\ IF get_winner(board) = None
       THEN pc' = "move" /\ result' = result /\ window' = board
       ELSE pc' = "done" /\ result' = get_winner(board) /\ window' = window
    /\ UNCHANGED <<board, current_player, move_ret,
                   player_1_input, player_2_input, search>>

\* The while test: redraw and ask for a move, or redraw and return the winner.
Loop ==
    /\ pc = "loop"
    /\ window' = board
    /\ IF get_winner(board) = None
       THEN pc' = "move" /\ result' = result
       ELSE pc' = "done" /\ result' = get_winner(board)
    /\ UNCHANGED <<board, current_player, move_ret,
                   player_1_input, player_2_input, search>>

\* UserInput.move: a click on a cell that is not taken returns (col, row).
UserInputMove ==
    /\ pc = "move"
    /\ player_input = "UserInput"
    /\ \E col \in Coord : \E row \in Coord :
          /\ ~Truthy(board[row][col])
          /\ move_ret' = <<col, row>>
    /\ pc' = "returned"
    /\ UNCHANGED <<board, current_player, result, window,
                   player_1_input, player_2_input, search>>

\* Any other PlayerInput: its move returns some Position, taken or not.
PlayerInputMove ==
    /\ pc = "move"
    /\ player_input = "PlayerInput"
    /\ \E x \in Coord : \E y \in Coord : move_ret' = <<x, y>>
    /\ pc' = "returned"
    /\ UNCHANGED <<board, current_player, result, window,
                   player_1_input, player_2_input, search>>

MinimaxMove ==
    /\ pc = "move"
    /\ player_input = "MinimaxInput"
    /\ \E r \in {MinimaxInput_move(board, current_player)} :
          move_ret' = r.best_move /\ board' = r.board
    /\ pc' = "returned"
    /\ UNCHANGED <<current_player, result, window,
                   player_1_input, player_2_input, search>>

AlphaBetaMove ==
    /\ pc = "move"
    /\ player_input = "AlphaBetaInput"
    /\ \E r \in {AlphaBetaInput_move(board, current_player)} :
          move_ret' = r.best_move /\ board' = r.board
    /\ pc' = "returned"
    /\ UNCHANGED <<current_player, result, window,
                   player_1_input, player_2_input, search>>

\* play without the write of line 146: the move is accepted and the player
\* changes, and the board stays as it was.
Validate_no_write ==
    /\ pc = "returned"
    /\ LET x == move_ret[1]
           y == move_ret[2]
       IN  IF board[y][x] # None
           THEN pc' = "error" /\ UNCHANGED <<board, current_player>>
           ELSE /\ board' = board
                /\ current_player' = (current_player % 2) + 1
                /\ pc' = "loop"
    /\ UNCHANGED <<move_ret, result, window,
                   player_1_input, player_2_input, search>>

\* play with the write of line 146 as board[x][y]: the test looks at one cell
\* and the mark goes to its mirror image.
Validate_swapped_indices ==
    /\ pc = "returned"
    /\ LET x == move_ret[1]
           y == move_ret[2]
       IN  IF board[y][x] # None
           THEN pc' = "error" /\ UNCHANGED <<board, current_player>>
           ELSE /\ board' = Put(board, y, x, current_player)
                /\ current_player' = (current_player % 2) + 1
                /\ pc' = "loop"
    /\ UNCHANGED <<move_ret, result, window,
                   player_1_input, player_2_input, search>>

\* play without the flip of line 148: the same player moves again.
Validate_no_flip ==
    /\ pc = "returned"
    /\ LET x == move_ret[1]
           y == move_ret[2]
       IN  IF board[y][x] # None
           THEN pc' = "error" /\ UNCHANGED <<board, current_player>>
           ELSE /\ board' = Put(board, x, y, current_player)
                /\ current_player' = current_player
                /\ pc' = "loop"
    /\ UNCHANGED <<move_ret, result, window,
                   player_1_input, player_2_input, search>>

\* play without the test of line 143: the mark is placed on a taken cell too.
Validate_unchecked ==
    /\ pc = "returned"
    /\ board' = Put(board, move_ret[1], move_ret[2], current_player)
    /\ current_player' = (current_player % 2) + 1
    /\ pc' = "loop"
    /\ UNCHANGED <<move_ret, result, window,
                   player_1_input, player_2_input, search>>

\* Lines 143-148: raise on a taken cell, else place the mark and flip the player.
Validate ==
    /\ pc = "returned"
    /\ LET x == move_ret[1]
           y == move_ret[2]
       IN  IF board[y][x] # None
           THEN pc' = "error" /\ UNCHANGED <<board, current_player>>
           ELSE /\ board' = Put(board, x, y, current_player)
                /\ current_player' = (current_player % 2) + 1
                /\ pc' = "loop"
    /\ UNCHANGED <<move_ret, result, window,
                   player_1_input, player_2_input, search>>

Engines == {"MinimaxInput", "AlphaBetaInput"}

\* The controller with providers that are not search engines.
Init == InitPlay({"UserInput", "PlayerInput"}, {"UserInput", "PlayerInput"})

Next == Loop \/ UserInputMove \/ PlayerInputMove \/ Validate

Spec == Init /\ [][Next]_vars

\* play runs on while it can: the interpreter executes the next statement, and
\* every call of move returns.
FairSpec == Spec /\ WF_vars(Next)

\* Both players are search engines.
InitEngines == InitPlay(Engines, Engines)

NextEngines == Loop \/ MinimaxMove \/ AlphaBetaMove \/ Validate

SpecEngines == InitEngines /\ [][NextEngines]_vars

\* One search engine against a user who clicks any free cell.
InitVsUser ==
    \/ InitPlay(Engines, {"UserInput"})
    \/ InitPlay({"UserInput"}, Engines)

NextVsUser == Loop \/ UserInputMove \/ MinimaxMove \/ AlphaBetaMove \/ Validate

SpecVsUser == InitVsUser /\ [][NextVsUser]_vars

----------------------------------------------------------------------------
(* The search engines called on their own, as a caller other than play may *)
(* call them: on one board MinimaxInput.move runs first and                *)
(* AlphaBetaInput.move second, on the board the first call left behind.    *)

\* The boards the engines are called on have at least this many marks.
MinMarks == 2

Positions == Coord \X Coord

EmptyCells(b) == {c \in Positions : b[c[2]][c[1]] = None}

Marks(b) == 9 - Cardinality(EmptyCells(b))

\* current_player after n applied moves: 1 first, then flipped by each move.
PlayerAfter(n) == IF n % 2 = 0 THEN 1 ELSE 2

RECURSIVE PlayedBoards(_)

\* The boards play can hold after n applied moves: a move is applied only
\* while get_winner is None, on an empty cell, by the current player.
PlayedBoards(n) ==
    IF n = 0
    THEN {EmptyBoard}
    ELSE UNION {{Put(b, c[1], c[2], PlayerAfter(n - 1)) : c \in EmptyCells(b)} :
                b \in {pb \in PlayedBoards(n - 1) : get_winner(pb) = None}}

\* Player One has taken the centre, Two is to move.
CenterOpening == Put(EmptyBoard, 1, 1, 1)

SearchBoards == {CenterOpening} \cup UNION {PlayedBoards(n) : n \in MinMarks..9}

InitSearch ==
    /\ board \in SearchBoards
    /\ current_player = PlayerAfter(Marks(board))
    /\ pc = "search"
    /\ move_ret = Unset
    /\ result = None
    /\ window = Unset
    /\ player_1_input = "MinimaxInput"
    /\ player_2_input = "AlphaBetaInput"
    /\ search = Unset

Search ==
    /\ pc = "search"
    /\ \E m \in {MinimaxInput_move(board, current_player)} :
       \E a \in {AlphaBetaInput_move(m.board, current_player)} :
          /\ search' = [called_on |-> board, minimax |-> m, alpha_beta |-> a]
          /\ board' = a.board
    /\ pc' = "searched"
    /\ UNCHANGED <<current_player, move_ret, result, window,
                   player_1_input, player_2_input>>

SpecSearch == InitSearch /\ [][Search]_vars

----------------------------------------------------------------------------
(* get_winner called on its own, on any grid of cells.                     *)

InitEval ==
    /\ board \in Boards
    /\ current_player = 1
    /\ pc = "evaluate"
    /\ move_ret = Unset
    /\ result = None
    /\ window = Unset
    /\ player_1_input = "PlayerInput"
    /\ player_2_input = "PlayerInput"
    /\ search = Unset

Evaluate ==
    /\ pc = "evaluate"
    /\ result' = get_winner(board)
    /\ pc' = "evaluated"
    /\ UNCHANGED <<board, current_player, move_ret, window,
                   player_1_input, player_2_input, search>>

SpecEval == InitEval /\ [][Evaluate]_vars

----------------------------------------------------------------------------
(* Properties of the search engines, under SpecSearch.                     *)

\* Both engines have returned from a call on an undecided board.
SearchedUndecided == pc = "searched" /\ get_winner(search.called_on) = None

\* C1: on every board reached by legal alternating play that is undecided,
\* with the player to move as mover, every empty cell is a candidate of both
\* engines and the score AlphaBetaInput.move computes for it equals the score
\* MinimaxInput.move computes for it.
C1_SameFirstMoveScores ==
    SearchedUndecided =>
        /\ DOMAIN search.minimax.scores = EmptyCells(search.called_on)
        /\ DOMAIN search.alpha_beta.scores = EmptyCells(search.called_on)
        /\ \A c \in EmptyCells(search.called_on) :
              search.alpha_beta.scores[c] = search.minimax.scores[c]

\* A board with at least five empty cells whose candidates do not all score alike.
C1_Witness ==
    /\ SearchedUndecided
    /\ Cardinality(EmptyCells(search.called_on)) >= 5
    /\ \E c \in EmptyCells(search.called_on) :
       \E d \in EmptyCells(search.called_on) :
          /\ search.alpha_beta.scores[c] = 1
          /\ search.alpha_beta.scores[d] = -1
          /\ search.minimax.scores[c] = 1

Other(p) == (p % 2) + 1

RECURSIVE MoverWins(_, _), MoverLoses(_, _)

\* The player p, to move on b, can force a win: the game is not over and some
\* move leads to a board the opponent, to move there, loses.
MoverWins(b, p) ==
    /\ get_winner(b) = None
    /\ \E c \in EmptyCells(b) : MoverLoses(Put(b, c[1], c[2], p), Other(p))

\* The player p, to move on b, cannot avoid defeat: the opponent has already
\* won, or the game goes on and every move leads to a board the opponent wins.
MoverLoses(b, p) ==
    \/ get_winner(b) = Other(p)
    \/ /\ get_winner(b) = None
       /\ \A c \in EmptyCells(b) : MoverWins(Put(b, c[1], c[2], p), Other(p))

\* The game-theoretic value of b for the player p to move.
GameValue(b, p) == IF MoverWins(b, p) THEN 1 ELSE IF MoverLoses(b, p) THEN -1 ELSE 0

\* C2: on every reachable undecided board, the cell MinimaxInput.move returns
\* and the cell AlphaBetaInput.move returns are candidates whose score is the
\* game-theoretic value of the position for the mover.
C2_ReturnedMoveHasGameValue ==
    SearchedUndecided =>
        /\ search.minimax.best_move \in DOMAIN search.minimax.scores
        /\ search.minimax.scores[search.minimax.best_move]
              = GameValue(search.called_on, current_player)
        /\ search.alpha_beta.best_move \in DOMAIN search.alpha_beta.scores
        /\ search.alpha_beta.scores[search.alpha_beta.best_move]
              = GameValue(search.called_on, current_player)

\* A position the mover wins although the first candidate in scan order loses.
C2_Witness ==
    /\ SearchedUndecided
    /\ GameValue(search.called_on, current_player) = 1
    /\ search.minimax.scores[search.minimax.best_move] = 1
    /\ \E c \in EmptyCells(search.called_on) : search.minimax.scores[c] = -1
    /\ search.minimax.best_move # <<0, 0>>

\* C5: called on a board with an empty cell, each engine returns a Position
\* <<x, y>> whose cell board[y][x] is empty on the board as the call leaves it.
C5_ReturnedCellIsEmpty ==
    (pc = "searched" /\ EmptyCells(search.called_on) # {}) =>
        /\ search.minimax.board[search.minimax.best_move[2]]
                               [search.minimax.best_move[1]] = None
        /\ search.alpha_beta.board[search.alpha_beta.best_move[2]]
                                  [search.alpha_beta.best_move[1]] = None

\* The cell (0, 0), the initial best_move, is taken and another cell is returned.
C5_Witness ==
    /\ pc = "searched"
    /\ search.called_on[0][0] # None
    /\ EmptyCells(search.called_on) # {}
    /\ search.minimax.best_move \in EmptyCells(search.called_on)
    /\ search.alpha_beta.best_move \in EmptyCells(search.called_on)

\* C6: when MinimaxInput.move or AlphaBetaInput.move returns, the board is
\* cell for cell the board it was called on.
C6_BoardRestored ==
    pc = "searched" =>
        /\ \A y \in Coord : \A x \in Coord :
              search.minimax.board[y][x] = search.called_on[y][x]
        /\ \A y \in Coord : \A x \in Coord :
              search.alpha_beta.board[y][x] = search.minimax.board[y][x]
        /\ board = search.called_on

\* Both engines have searched a board with at least four empty cells.
C6_Witness ==
    /\ pc = "searched"
    /\ get_winner(search.called_on) = None
    /\ Cardinality(EmptyCells(search.called_on)) >= 4
    /\ Cardinality(DOMAIN search.minimax.scores) >= 4
    /\ board = search.called_on

EdgeCells == {<<1, 0>>, <<0, 1>>, <<2, 1>>, <<1, 2>>}

CornerCells == {<<0, 0>>, <<2, 0>>, <<0, 2>>, <<2, 2>>}

\* C10: after One's centre opening, with Two to move, each engine scores each
\* of the four edge cells -1 and each corner at least as high as the edges.
C10_EdgesLoseAfterCenter ==
    (pc = "searched" /\ search.called_on = CenterOpening) =>
        /\ current_player = 2
        /\ \A e \in EdgeCells :
              /\ search.minimax.scores[e] = -1
              /\ search.alpha_beta.scores[e] = -1
        /\ \A c \in CornerCells : \A e \in EdgeCells :
              /\ search.minimax.scores[c] >= search.minimax.scores[e]
              /\ search.alpha_beta.scores[c] >= search.alpha_beta.scores[e]

\* The centre opening has been searched and a corner was returned.
C10_Witness ==
    /\ pc = "searched"
    /\ search.called_on = CenterOpening
    /\ search.minimax.best_move \in CornerCells
    /\ search.alpha_beta.best_move \in CornerCells

\* C8: a search engine asked to move on a board with no empty cell does not
\* return a Position: no call on a full board comes back.
C8_FullBoardRejected ==
    ~(pc = "searched" /\ EmptyCells(search.called_on) = {})

----------------------------------------------------------------------------
(* Properties of whole games.                                              *)

\* C3 (under SpecEngines): in a game between two search engines, in any
\* combination of MinimaxInput and AlphaBetaInput, no board ever holds a
\* completed line, play never raises, and when play has returned it has
\* returned 0, the draw.
C3_EnginesAlwaysDraw ==
    /\ get_winner(board) \notin {1, 2}
    /\ pc # "error"
    /\ pc = "done" => result = 0

\* play has returned a draw on a full board without a completed line.
C3_Witness ==
    /\ pc = "done"
    /\ result = 0
    /\ EmptyCells(board) = {}
    /\ player_1_input \in Engines
    /\ player_2_input \in Engines

\* The mark of the player who is not a search engine (0 if both are).
UserMark ==
    IF player_1_input \notin Engines THEN 1
    ELSE IF player_2_input \notin Engines THEN 2 ELSE 0

\* C4 (under SpecVsUser): with a search engine on one side and any legal
\* moves on the other, no board of the game has a completed line of the
\* other side, and play never returns the other side as the winner.
C4_EngineNeverLoses ==
    /\ UserMark \in {1, 2}
    /\ get_winner(board) # UserMark
    /\ pc = "done" => result \in {0, Other(UserMark)}

\* play has returned the engine as winner of a game the user lost.
C4_Witness ==
    /\ pc = "done"
    /\ result = Other(UserMark)
    /\ result = 2
    /\ player_2_input = "AlphaBetaInput"

\* A provider's answer names a taken cell.
TakenCellReturned ==
    pc = "returned" /\ board[move_ret[2]][move_ret[1]] # None

\* C7 (under Spec): when a provider returns a Position whose cell is taken,
\* play raises, no cell of the board and no other variable of play is
\* written, and after the raise nothing changes any more.
C7_InvalidMoveRaises ==
    [][/\ TakenCellReturned =>
             /\ pc' = "error"
             /\ board' = board
             /\ current_player' = current_player
             /\ result' = result
       /\ pc = "error" => UNCHANGED vars]_vars

\* play has raised on a board that holds marks of both players.
C7_Witness ==
    /\ pc = "error"
    /\ board[move_ret[2]][move_ret[1]] # None
    /\ Marks(board) >= 2
    /\ result = None

----------------------------------------------------------------------------
(* Properties of get_winner, under SpecEval.                               *)

\* The eight lines, as sets of positions <<x, y>>.
Lines ==
    {{<<x, y>> : x \in Coord} : y \in Coord}
    \cup {{<<x, y>> : y \in Coord} : x \in Coord}
    \cup {{<<0, 0>>, <<1, 1>>, <<2, 2>>}, {<<2, 0>>, <<1, 1>>, <<0, 2>>}}

HasLine(b, p) == \E l \in Lines : \A c \in l : b[c[2]][c[1]] = p

\* C9: on every grid over {None, 1, 2} on which at most one player has a
\* completed line, get_winner returns that player if there is a completed
\* line (also on a full grid), 0 if there is none and no cell is empty, and
\* None if there is none and some cell is empty.
C9_GetWinner ==
    (pc = "evaluated" /\ ~(HasLine(board, 1) /\ HasLine(board, 2))) =>
        result = IF HasLine(board, 1) THEN 1
                 ELSE IF HasLine(board, 2) THEN 2
                 ELSE IF EmptyCells(board) = {} THEN 0
                 ELSE None

\* A full grid whose only completed line is the anti-diagonal of player 2.
C9_Witness ==
    /\ pc = "evaluated"
    /\ EmptyCells(board) = {}
    /\ board[0][2] = 2 /\ board[1][1] = 2 /\ board[2][0] = 2
    /\ ~HasLine(board, 1)
    /\ result = 2

----------------------------------------------------------------------------
(* Move selection, under SpecSearch.                                       *)

\* The place of the cell <<x, y>> in the scan: row y outer, column x inner.
ScanIndex(c) == 3 * c[2] + c[1]

\* The first cell in scan order among the cells whose score is maximal.
FirstBest(scores) ==
    CHOOSE c \in DOMAIN scores :
        /\ \A d \in DOMAIN scores : scores[d] <= scores[c]
        /\ \A d \in DOMAIN scores :
              scores[d] = scores[c] => ScanIndex(c) <= ScanIndex(d)

\* C11: on every reachable undecided board each engine returns the first
\* cell in row-major scan order among the empty cells whose first-move score
\* is maximal, so MinimaxInput.move and AlphaBetaInput.move return the same
\* Position.
C11_FirstBestCellReturned ==
    SearchedUndecided =>
        /\ DOMAIN search.minimax.scores = EmptyCells(search.called_on)
        /\ DOMAIN search.alpha_beta.scores = EmptyCells(search.called_on)
        /\ search.minimax.best_move = FirstBest(search.minimax.scores)
        /\ search.alpha_beta.best_move = FirstBest(search.alpha_beta.scores)
        /\ search.alpha_beta.best_move = search.minimax.best_move

\* Several cells share the maximal score and the returned one is neither the
\* first empty cell nor the last cell with that score.
C11_Witness ==
    /\ SearchedUndecided
    /\ \E c \in EmptyCells(search.called_on) :
          ScanIndex(c) < ScanIndex(search.minimax.best_move)
    /\ \E d \in EmptyCells(search.called_on) :
          /\ ScanIndex(d) > ScanIndex(search.minimax.best_move)
          /\ search.minimax.scores[d] = search.minimax.best_score
    /\ search.alpha_beta.best_move = search.minimax.best_move

----------------------------------------------------------------------------
(* Properties of the controller, under Spec.                               *)

\* C12: once get_winner of the board is not None, play asks for no further
\* move and writes no cell, so that board is the final one; the value play
\* returns is get_winner of it.
C12_DecidedBoardIsFinal ==
    /\ [](get_winner(board) # None => pc \in {"loop", "done"})
    /\ [](pc = "done" => result # None /\ result = get_winner(board))
    /\ [][get_winner(board) # None =>
             /\ board' = board
             /\ current_player' = current_player
             /\ pc' = "done"
             /\ result' = get_winner(board)]_vars

\* play has returned the winner of a board that still has empty cells.
C12_Witness ==
    /\ pc = "done"
    /\ result = 2
    /\ Cardinality(EmptyCells(board)) >= 2

\* C13: when every call of move returns, play stops, by returning or by the
\* exception of an invalid move; when it returns, between 5 and 9 moves have
\* been applied to the board.
C13_PlayStops ==
    /\ <>(pc \in {"done", "error"})
    /\ [](pc = "done" => Marks(board) \in 5..9)

\* play has returned a draw after nine applied moves.
C13_Witness ==
    /\ pc = "done"
    /\ result = 0
    /\ Marks(board) = 9

\* A step of play that applies a move: lines 146 to 148.
MoveApplied == pc = "returned" /\ pc' = "loop"

\* C14: the board starts with no mark, a step that applies a move adds exactly
\* one mark and no other step changes the number of marks, so the marks count
\* the applied moves; a taken cell keeps its mark in every step.
C14_MarksCountAppliedMoves ==
    /\ Marks(board) = 0
    /\ [][/\ MoveApplied => Marks(board') = Marks(board) + 1
          /\ ~MoveApplied => Marks(board') = Marks(board)
          /\ \A x \in Coord : \A y \in Coord :
                board[y][x] # None => board'[y][x] = board[y][x]]_vars

\* Both players have applied moves, and the first mark of each is still there.
C14_Witness ==
    /\ pc = "loop"
    /\ Marks(board) = 6
    /\ board[1][1] = 1
    /\ board[0][2] = 2

\* The number of cells of b that hold the mark of player p.
MarksOf(b, p) == Cardinality({c \in Positions : b[c[2]][c[1]] = p})

\* C15: play starts with an empty board and player 1 to move; the player to
\* move changes to the other one in the steps that apply a move and in no
\* other step; so player 1 has as many marks as player 2 when 1 is to move and
\* one more when 2 is to move.
C15_PlayersAlternate ==
    /\ board = EmptyBoard /\ current_player = 1
    /\ [](current_player \in {1, 2})
    /\ [](MarksOf(board, 1) - MarksOf(board, 2) = current_player - 1)
    /\ [][/\ MoveApplied => current_player' = Other(current_player)
          /\ ~MoveApplied => current_player' = current_player]_vars

\* Player 2 is to move after the third move of player 1.
C15_Witness ==
    /\ pc = "move"
    /\ current_player = 2
    /\ MarksOf(board, 1) = 3
    /\ MarksOf(board, 2) = 2

\* C18: the window shows the board whenever a move is requested, whenever a
\* move has come back and when play has returned; a step of play that writes
\* the board starts from a board the window shows, so a redraw lies between
\* any two writes, and the last redraw shows the final board.
C18_RedrawBetweenWrites ==
    /\ [](pc \in {"move", "returned", "done"} => window = board)
    /\ [][board' # board => window = board /\ window' # board']_vars

\* play has returned after seven moves, and the window shows the won board.
C18_Witness ==
    /\ pc = "done"
    /\ result = 1
    /\ Marks(board) = 7
    /\ window = board

\* C20: the two players never both have a complete line, and when play
\* returns player p as the winner, p has just moved: the player to move after
\* the last flip is the other one.
C20_WinnerMovedLast ==
    /\ ~(HasLine(board, 1) /\ HasLine(board, 2))
    /\ (pc = "done" /\ result \in {1, 2}) =>
          /\ result = Other(current_player)
          /\ HasLine(board, result)
          /\ ~HasLine(board, current_player)

\* play has returned player 2 as the winner, and player 1 is the one to move.
C20_Witness ==
    /\ pc = "done"
    /\ result = 2
    /\ current_player = 1
    /\ HasLine(board, 2)

----------------------------------------------------------------------------
(* The searches statement by statement.  MinimaxInput.move runs on a board *)
(* and AlphaBetaInput.move after it on the same board; `board` is the list *)
(* both write in place, and `search` holds the call stack:                 *)
(*   engine      the class whose move is running                           *)
(*   called_on   the board as it was when move was called                  *)
(*   stack       the frames, move's first; a frame holds its locals,       *)
(*               k = 3*y + x for the loop position, the board at its       *)
(*               entry, and the cells it has written and not yet cleared   *)
(*   ret         the value the last call returned, None once it is used    *)
(*   exit        the statement the last scorer call returned from          *)
(*   nodes       the number of scorer calls made by each engine            *)
(*   best_move, best_score   what each move call returned and settled on   *)

\* The boards the searches are stepped on have at least this many marks.
MinStepMarks == 4

StepBoards == UNION {PlayedBoards(n) : n \in MinStepMarks..9}

Top(s) == s[Len(s)]

Pop(s) == SubSeq(s, 1, Len(s) - 1)

SetTop(s, f) == [s EXCEPT ![Len(s)] = f]

\* The frame of move: it writes `player`, as a maximizing frame does, and
\* passes -INFINITY, INFINITY and False to the scorer.
MoveFrame(b) ==
    [entry |-> b, phase |-> "loop", k |-> 0, maximizing |-> TRUE,
     alpha |-> -INFINITY, beta |-> INFINITY,
     best_score |-> -INFINITY, best_move |-> <<0, 0>>, own |-> {}]

\* The frame of a scorer call made by frame f, on board b.
ScorerFrame(f, b) ==
    [entry |-> b, phase |-> "entry", k |-> 0, maximizing |-> ~f.maximizing,
     alpha |-> f.alpha, beta |-> f.beta,
     best_score |-> None, best_move |-> <<0, 0>>, own |-> {}]

\* The scorers and move without `board[y][x] = None`.
undo_nothing(b, x, y) == b

\* board[y][x] = None after the call.
undo(b, x, y) == Put(b, x, y, None)

\* The cutoff with the test left out: return after the first scored cell.
cutoff_always(engine, alpha, beta) == TRUE

\* if alpha > beta: return best_score; __minimax has no such statement.
cutoff(engine, alpha, beta) == engine = "AlphaBetaInput" /\ alpha > beta

InitStep ==
    /\ board \in StepBoards
    /\ current_player = PlayerAfter(Marks(board))
    /\ pc = "step"
    /\ move_ret = Unset
    /\ result = None
    /\ window = Unset
    /\ player_1_input = "MinimaxInput"
    /\ player_2_input = "AlphaBetaInput"
    /\ search = [engine |-> "MinimaxInput", called_on |-> board,
                 stack |-> <<MoveFrame(board)>>, ret |-> None,
                 exit |-> "none",
                 nodes |-> [e \in Engines |-> 0],
                 best_move |-> [e \in Engines |-> <<0, 0>>],
                 best_score |-> [e \in Engines |-> None]]

StepUnchanged ==
    UNCHANGED <<current_player, move_ret, result, window,
                player_1_input, player_2_input>>

\* `if board[y][x] is None` is false: the loop goes to the next cell.
StepSkip ==
    /\ pc = "step"
    /\ search.stack # <<>>
    /\ search.ret = None
    /\ LET f == Top(search.stack)
       IN  /\ f.phase = "loop"
           /\ f.k < 9
           /\ board[f.k \div 3][f.k % 3] # None
           /\ search' = [search EXCEPT
                  !.stack = SetTop(search.stack, [f EXCEPT !.k = f.k + 1])]
    /\ UNCHANGED <<board, pc>>
    /\ StepUnchanged

\* The cell is None: the frame writes the mark and calls the scorer.
StepCall ==
    /\ pc = "step"
    /\ search.stack # <<>>
    /\ search.ret = None
    /\ LET f == Top(search.stack)
           y == f.k \div 3
           x == f.k % 3
           b == Put(board, x, y, mover(current_player, f.maximizing))
       IN  /\ f.phase = "loop"
           /\ f.k < 9
           /\ board[y][x] = None
           /\ board' = b
           /\ search' = [search EXCEPT
                  !.stack = Append(SetTop(search.stack,
                                [f EXCEPT !.own = f.own \cup {<<x, y>>}]),
                                ScorerFrame(f, b)),
                  !.nodes[search.engine] = @ + 1]
    /\ UNCHANGED pc
    /\ StepUnchanged

\* The head of a scorer: a decided board returns its score, an undecided one
\* sets best_score and starts the loop.
StepEnter ==
    /\ pc = "step"
    /\ search.stack # <<>>
    /\ LET f == Top(search.stack)
           winner == get_winner(board)
       IN  /\ f.phase = "entry"
           /\ IF winner # None
              THEN search' = [search EXCEPT
                       !.stack = Pop(search.stack),
                       !.ret = terminal_score(winner, current_player),
                       !.exit = "decided"]
              ELSE search' = [search EXCEPT
                       !.stack = SetTop(search.stack,
                           [f EXCEPT !.phase = "loop",
                                     !.best_score = IF f.maximizing
                                                    THEN -INFINITY
                                                    ELSE INFINITY])]
    /\ UNCHANGED <<board, pc>>
    /\ StepUnchanged

\* A scorer gets the score of its call back: it clears the cell, updates
\* best_score and, in __alpha_beta, the window, and returns on a cutoff.
StepResume ==
    /\ pc = "step"
    /\ Len(search.stack) > 1
    /\ search.ret # None
    /\ LET f == Top(search.stack)
           y == f.k \div 3
           x == f.k % 3
           score == search.ret
           b == undo(board, x, y)
           best == get_best_score(f.maximizing, score, f.best_score)
           pruning == search.engine = "AlphaBetaInput"
           alpha2 == IF pruning /\ f.maximizing /\ score > f.alpha
                     THEN score ELSE f.alpha
           beta2 == IF pruning /\ ~f.maximizing /\ score < f.beta
                    THEN score ELSE f.beta
       IN  /\ board' = b
           /\ IF cutoff(search.engine, alpha2, beta2)
              THEN search' = [search EXCEPT !.stack = Pop(search.stack),
                                            !.ret = best,
                                            !.exit = "cutoff"]
              ELSE search' = [search EXCEPT
                       !.stack = SetTop(search.stack,
                           [f EXCEPT !.k = f.k + 1,
                                     !.best_score = best,
                                     !.alpha = alpha2,
                                     !.beta = beta2,
                                     !.own = {c \in f.own :
                                                 b[c[2]][c[1]] # None}]),
                       !.ret = None]
    /\ UNCHANGED pc
    /\ StepUnchanged

\* The loop of a scorer is over: return best_score.
StepReturn ==
    /\ pc = "step"
    /\ Len(search.stack) > 1
    /\ search.ret = None
    /\ LET f == Top(search.stack)
       IN  /\ f.phase = "loop"
           /\ f.k = 9
           /\ search' = [search EXCEPT !.stack = Pop(search.stack),
                                       !.ret = f.best_score,
                                       !.exit = "exhausted"]
    /\ UNCHANGED <<board, pc>>
    /\ StepUnchanged

\* move gets the score of a candidate back: it clears the cell and keeps the
\* candidate if it is better.
StepMoveResume ==
    /\ pc = "step"
    /\ Len(search.stack) = 1
    /\ search.ret # None
    /\ LET f == Top(search.stack)
           y == f.k \div 3
           x == f.k % 3
           score == search.ret
           b == undo(board, x, y)
           take == better(score, f.best_score)
       IN  /\ board' = b
           /\ search' = [search EXCEPT
                  !.stack = SetTop(search.stack,
                      [f EXCEPT !.k = f.k + 1,
                                !.best_score = IF take THEN score ELSE @,
                                !.best_move = IF take THEN <<x, y>> ELSE @,
                                !.own = {c \in f.own : b[c[2]][c[1]] # None}]),
                  !.ret = None]
    /\ UNCHANGED pc
    /\ StepUnchanged

\* The loop of move is over: return best_move.
StepMoveReturn ==
    /\ pc = "step"
    /\ Len(search.stack) = 1
    /\ search.ret = None
    /\ LET f == Top(search.stack)
       IN  /\ f.k = 9
           /\ search' = [search EXCEPT
                  !.stack = <<>>,
                  !.best_move[search.engine] = f.best_move,
                  !.best_score[search.engine] = f.best_score]
    /\ pc' = IF search.engine = "AlphaBetaInput" THEN "stepped" ELSE "step"
    /\ UNCHANGED board
    /\ StepUnchanged

\* MinimaxInput.move has returned: AlphaBetaInput.move is called on the board.
StepNextEngine ==
    /\ pc = "step"
    /\ search.stack = <<>>
    /\ search.engine = "MinimaxInput"
    /\ search' = [search EXCEPT !.engine = "AlphaBetaInput",
                                !.stack = <<MoveFrame(board)>>]
    /\ UNCHANGED <<board, pc>>
    /\ StepUnchanged

NextStep ==
    \/ StepSkip
    \/ StepCall
    \/ StepEnter
    \/ StepResume
    \/ StepReturn
    \/ StepMoveResume
    \/ StepMoveReturn
    \/ StepNextEngine

SpecStep == InitStep /\ [][NextStep]_vars

----------------------------------------------------------------------------
(* Properties of the stepped searches, under SpecStep.                     *)

Scores == {-1, 0, 1}

\* C16: every value a scorer call returns, by any of its return statements,
\* is -1, 0 or 1, never -INFINITY or INFINITY; and the best_score of a move
\* call that has returned is -1, 0 or 1 if the board had an empty cell.
C16_ScoresInRange ==
    /\ search.ret \in Scores \cup {None}
    /\ \A e \in Engines :
          (search.best_score[e] # None /\ EmptyCells(search.called_on) # {})
             => search.best_score[e] \in Scores

\* __alpha_beta has just returned from its cutoff, two calls deep.
C16_Witness ==
    /\ pc = "step"
    /\ search.engine = "AlphaBetaInput"
    /\ search.exit = "cutoff"
    /\ search.ret \in Scores
    /\ Len(search.stack) >= 2
    /\ search.best_score["MinimaxInput"] \in Scores

\* The cells written since move was called and not cleared yet.
Written == EmptyCells(search.called_on) \ EmptyCells(board)

\* The cells the frames of the stack hold as their own.
Owned == UNION {search.stack[i].own : i \in 1..Len(search.stack)}

\* C17: a scorer call returns, from the decided test, from the end of the
\* loop or from the cutoff, with the board as it was at the call's entry; the
\* cells written since move was called are those the frames in progress hold,
\* at most one each, so at the head of a call and in its loop the board has
\* one mark more than the board move was called on for each scorer call in
\* progress; and move returns with the board as it was called on.
C17_FramesRestoreBoard ==
    /\ [](/\ Written = Owned
          /\ Marks(board) = Marks(search.called_on) + Cardinality(Owned)
          /\ \A i \in 1..Len(search.stack) :
                Cardinality(search.stack[i].own) <= 1
          /\ (search.stack # <<>> /\ search.ret = None)
                => Cardinality(Owned) = Len(search.stack) - 1
          /\ search.stack = <<>> => board = search.called_on)
    /\ [][(Len(search.stack) > 1 /\ Len(search.stack') < Len(search.stack))
             => /\ board' = Top(search.stack).entry
                /\ search'.exit \in {"decided", "exhausted", "cutoff"}
                /\ search'.stack = Pop(search.stack)]_vars

\* __alpha_beta has returned from its cutoff three calls deep, and the cell
\* of each caller is still on the board.
C17_Witness ==
    /\ pc = "step"
    /\ search.exit = "cutoff"
    /\ search.ret # None
    /\ Len(search.stack) = 3
    /\ Cardinality(Written) = 3

RECURSIVE GameTree(_, _), Continuations(_, _, _)

\* The number of boards in the game tree below board b with p to move, b
\* included: a decided board is a leaf, and an undecided one has one
\* continuation for each empty cell.
GameTree(b, p) ==
    IF get_winner(b) # None THEN 1 ELSE 1 + Continuations(b, p, 0)

\* The boards of the game trees of the continuations of b by a mark of p on
\* a cell from k on.
Continuations(b, p, k) ==
    IF k = 9
    THEN 0
    ELSE (IF b[k \div 3][k % 3] = None
          THEN GameTree(Put(b, k % 3, k \div 3, p), Other(p))
          ELSE 0) + Continuations(b, p, k + 1)

\* C19: on an undecided board AlphaBetaInput.move makes at most as many
\* scorer calls as MinimaxInput.move, and MinimaxInput.move makes one call for
\* every board of the game tree below the board it is called on; a cutoff
\* happens in __alpha_beta only, and it ends the one call it happens in: the
\* frames of the callers stay as they are and go on with their next cells.
C19_AlphaBetaVisitsNoMore ==
    /\ []((pc = "stepped" /\ get_winner(search.called_on) = None) =>
            /\ search.nodes["AlphaBetaInput"] <= search.nodes["MinimaxInput"]
            /\ search.nodes["MinimaxInput"] =
                  Continuations(search.called_on, current_player, 0))
    /\ [][(search'.exit = "cutoff" /\ search'.stack # search.stack
              /\ search'.ret # None /\ search.ret # None)
             => /\ search.engine = "AlphaBetaInput"
                /\ search'.stack = Pop(search.stack)
                /\ search'.nodes = search.nodes]_vars

\* Both searches have run on an undecided board with five empty cells, and
\* AlphaBetaInput.move has made fewer scorer calls.
C19_Witness ==
    /\ pc = "stepped"
    /\ get_winner(search.called_on) = None
    /\ Marks(search.called_on) = 4
    /\ search.nodes["AlphaBetaInput"] < search.nodes["MinimaxInput"]

====
